---- MODULE Spec2Model ----
(***************************************************************************)
(* Model of the hockey rating pipeline of src/finalproject/src:            *)
(* cleaning.rs (process_file, clean_fields, default_metric,                *)
(* normalize_metrics) and main.rs (calculate_score, main).                 *)
(*                                                                         *)
(* Text is a sequence of one-character strings.  An f64 is a pair <<n,d>>: *)
(* d > 0 is the finite rational n/d in lowest terms, <<1,0>> is +inf,      *)
(* <<-1,0>> is -inf and <<0,0>> is NaN.  Rounding is not modelled; a       *)
(* result beyond F64Max in magnitude becomes infinite, as in IEEE-754.     *)
(***************************************************************************)
EXTENDS Integers, Sequences, FiniteSets, TLC

VARIABLES entry, pc, lines, idx, players, processed_rows, skipped_rows,
          order, position_groups, leaderboard

vars == <<entry, pc, lines, idx, players, processed_rows, skipped_rows,
          order, position_groups, leaderboard>>

(* ------------------------------ bounds --------------------------------- *)

\* most lines in an input file
MaxLines == 2
\* largest finite magnitude of the modelled f64, standing for f64::MAX
F64Max == 50
\* longest metric vector of a registry built directly, as the unit test does
MaxVecLen == 2

(* ----------------------------- constants ------------------------------- *)

MinFields == 34
TopN == 10
Positions == {"Center", "Wing", "Defense"}
PositionOrder == <<"Center", "Wing", "Defense">>

(* ------------------------------- f64 ----------------------------------- *)

Abs(x) == IF x < 0 THEN -x ELSE x

RECURSIVE GCD(_, _)
GCD(a, b) == IF b = 0 THEN a ELSE GCD(b, a % b)

NaN == <<0, 0>>
PosInf == <<1, 0>>
NegInf == <<-1, 0>>
Zero == <<0, 1>>
One == <<1, 1>>

\* the f64 nearest to n/d (d # 0): lowest terms, infinite beyond F64Max
F64Of(n, d) ==
    LET s == IF d < 0 THEN -1 ELSE 1
        g == GCD(Abs(n), Abs(d))
        nn == (s * n) \div g
        dd == (s * d) \div g
    IN  IF Abs(nn) > F64Max * dd
        THEN (IF nn > 0 THEN PosInf ELSE NegInf)
        ELSE <<nn, dd>>

IsFinite(x) == x[2] # 0

\* a > b on finite values
F64Gt(a, b) == a[1] * b[2] > b[1] * a[2]

\* a quotient that never leaves the finite range
F64DivUnbounded(v, m) ==
    LET n == v[1] * m[2]
        d == v[2] * m[1]
        g == GCD(Abs(n), Abs(d))
    IN  IF d < 0 THEN <<(-n) \div g, (-d) \div g>> ELSE <<n \div g, d \div g>>

\* v / m for finite v and finite m # 0
F64Div(v, m) == F64Of(v[1] * m[2], v[2] * m[1])

(* ------------------------------- text ---------------------------------- *)

Quote == "\""
Whitespace == {" "}

RECURSIVE TrimStart(_, _)
TrimStart(s, cs) ==
    IF s # <<>> /\ Head(s) \in cs THEN TrimStart(Tail(s), cs) ELSE s

RECURSIVE TrimEnd(_, _)
TrimEnd(s, cs) ==
    IF s # <<>> /\ s[Len(s)] \in cs
    THEN TrimEnd(SubSeq(s, 1, Len(s) - 1), cs) ELSE s

\* str::trim and str::trim_matches
TrimMatches(s, cs) == TrimEnd(TrimStart(s, cs), cs)

\* the index of the first sep at or after i, Len(s) + 1 if there is none
RECURSIVE Find(_, _, _)
Find(s, sep, i) ==
    IF i > Len(s) \/ s[i] = sep THEN i ELSE Find(s, sep, i + 1)

\* the pieces of s from index i on
RECURSIVE SplitFrom(_, _, _)
SplitFrom(s, sep, i) ==
    LET k == Find(s, sep, i)
    IN  IF k > Len(s) THEN <<SubSeq(s, i, Len(s))>>
        ELSE <<SubSeq(s, i, k - 1)>> \o SplitFrom(s, sep, k + 1)

\* str::split: the pieces between separators, one more than the separators
Split(s, sep) == SplitFrom(s, sep, 1)

Digits == <<"0", "1", "2", "3", "4", "5", "6", "7", "8", "9">>
IsDigit(c) == \E k \in 1..10 : Digits[k] = c
DigitVal(c) == (CHOOSE k \in 1..10 : Digits[k] = c) - 1

RECURSIVE DecVal(_)
DecVal(s) == IF s = <<>> THEN 0
             ELSE 10 * DecVal(SubSeq(s, 1, Len(s) - 1)) + DigitVal(s[Len(s)])

RECURSIVE Pow10(_)
Pow10(k) == IF k = 0 THEN 1 ELSE 10 * Pow10(k - 1)

AllDigits(s) == \A k \in 1..Len(s) : IsDigit(s[k])

ParseError == [ok |-> FALSE, val |-> <<0, 0>>]

\* str::parse::<f64> on signed decimals and NaN; anything else is an error
ParseF64(s) ==
    LET neg == s # <<>> /\ Head(s) = "-"
        body == IF s # <<>> /\ Head(s) \in {"-", "+"} THEN Tail(s) ELSE s
        parts == Split(body, ".")
        ip == parts[1]
        fp == IF Len(parts) = 2 THEN parts[2] ELSE <<>>
        n == DecVal(ip) * Pow10(Len(fp)) + DecVal(fp)
    IN  IF s = <<"N", "a", "N">> THEN [ok |-> TRUE, val |-> NaN]
        ELSE IF Len(parts) > 2 \/ ~AllDigits(ip) \/ ~AllDigits(fp)
                \/ (ip = <<>> /\ fp = <<>>)
        THEN ParseError
        ELSE [ok |-> TRUE, val |-> F64Of(IF neg THEN -n ELSE n, Pow10(Len(fp)))]

default_metric == Zero

\* fields[i].parse::<f64>().unwrap_or_else(|_| default_metric(..))
Metric(fields, i) ==
    LET r == ParseF64(fields[i + 1])
    IN  IF r.ok THEN r.val ELSE default_metric

(* ------------------------------ maps ----------------------------------- *)

EmptyMap == [k \in {} |-> <<>>]

\* HashMap::insert: the value under k is replaced
MapInsert(m, k, v) == [x \in DOMAIN m \cup {k} |-> IF x = k THEN v ELSE m[x]]

\* entry(k).or_insert_with(Vec::new).extend(v)
MapExtend(m, k, v) ==
    MapInsert(m, k, (IF k \in DOMAIN m THEN m[k] ELSE <<>>) \o v)

(* --------------------------- clean_fields ------------------------------ *)

None == [ok |-> FALSE, name |-> <<>>, positions |-> <<>>, metrics |-> EmptyMap]
Some(n, ps, ms) == [ok |-> TRUE, name |-> n, positions |-> ps, metrics |-> ms]

CenterMetrics(fields) ==
    <<Metric(fields, 33), Metric(fields, 9), Metric(fields, 27),
      Metric(fields, 7), Metric(fields, 10)>>

WingMetrics(fields) ==
    <<Metric(fields, 5), Metric(fields, 12), Metric(fields, 18),
      Metric(fields, 9), Metric(fields, 28)>>

DefenseMetrics(fields) ==
    <<Metric(fields, 28), Metric(fields, 30), Metric(fields, 27),
      Metric(fields, 9), Metric(fields, 18)>>

\* the loop with an unknown token passed over instead of ending the row
RECURSIVE PositionLoopSkipping(_, _, _, _, _)
PositionLoopSkipping(fields, tokens, k, positions, metrics) ==
    IF k > Len(tokens) THEN Some(fields[2], positions, metrics)
    ELSE LET pos == tokens[k]
         IN  IF pos = <<"C">>
             THEN PositionLoopSkipping(fields, tokens, k + 1,
                               Append(positions, "Center"),
                               MapInsert(metrics, "Center", CenterMetrics(fields)))
             ELSE IF pos = <<"L">> \/ pos = <<"R">>
             THEN PositionLoopSkipping(fields, tokens, k + 1,
                               Append(positions, "Wing"),
                               MapExtend(metrics, "Wing", WingMetrics(fields)))
             ELSE IF pos = <<"D">>
             THEN PositionLoopSkipping(fields, tokens, k + 1,
                               Append(positions, "Defense"),
                               MapInsert(metrics, "Defense", DefenseMetrics(fields)))
             ELSE PositionLoopSkipping(fields, tokens, k + 1, positions, metrics)

\* the loop over position_str.split('/') from token k on
RECURSIVE PositionLoop(_, _, _, _, _)
PositionLoop(fields, tokens, k, positions, metrics) ==
    IF k > Len(tokens) THEN Some(fields[2], positions, metrics)
    ELSE LET pos == tokens[k]
         IN  IF pos = <<"C">>
             THEN PositionLoop(fields, tokens, k + 1,
                               Append(positions, "Center"),
                               MapInsert(metrics, "Center", CenterMetrics(fields)))
             ELSE IF pos = <<"L">> \/ pos = <<"R">>
             THEN PositionLoop(fields, tokens, k + 1,
                               Append(positions, "Wing"),
                               MapExtend(metrics, "Wing", WingMetrics(fields)))
             ELSE IF pos = <<"D">>
             THEN PositionLoop(fields, tokens, k + 1,
                               Append(positions, "Defense"),
                               MapInsert(metrics, "Defense", DefenseMetrics(fields)))
             ELSE None

\* line.split(',').map(|f| f.trim().trim_matches('"')).collect()
FieldsOf(line) ==
    LET raw == Split(line, ",")
    IN  [k \in 1..Len(raw) |->
            TrimMatches(TrimMatches(raw[k], Whitespace), {Quote})]

clean_fields(line) ==
    LET fields == FieldsOf(line)
    IN  IF Len(fields) < MinFields THEN None
        ELSE IF fields[2] = <<>> \/ fields[3] = <<>> THEN None
        ELSE PositionLoop(fields, Split(fields[3], "/"), 1, <<>>, EmptyMap)

Player(r) == [name |-> r.name, positions |-> r.positions, metrics |-> r.metrics]

\* a later row of the same name is merged into the stored entry
InsertPlayerMerging(ps, r) ==
    IF r.name \in DOMAIN ps
    THEN MapInsert(ps, r.name,
            [name |-> r.name,
             positions |-> ps[r.name].positions \o r.positions,
             metrics |-> [p \in DOMAIN ps[r.name].metrics \cup DOMAIN r.metrics |->
                            IF p \in DOMAIN r.metrics THEN r.metrics[p]
                            ELSE ps[r.name].metrics[p]]])
    ELSE MapInsert(ps, r.name, Player(r))

\* players.insert(player_name.clone(), Player { name, positions, metrics })
InsertPlayer(ps, r) == MapInsert(ps, r.name, Player(r))

(* ------------------------- normalize_metrics --------------------------- *)

Panic == [ok |-> FALSE]

Zeros(n) == [i \in 1..n |-> Zero]

\* for (i, &metric) in metrics.iter().enumerate(): raise max_vals[i] to a
\* larger finite metric; max_vals[i] is read only for a finite metric
RECURSIVE MaxLoop(_, _, _)
MaxLoop(metrics, i, max_vals) ==
    IF i > Len(metrics) THEN [ok |-> TRUE, val |-> max_vals]
    ELSE IF ~IsFinite(metrics[i]) THEN MaxLoop(metrics, i + 1, max_vals)
    ELSE IF i > Len(max_vals) THEN Panic
    ELSE IF F64Gt(metrics[i], max_vals[i])
    THEN MaxLoop(metrics, i + 1, [max_vals EXCEPT ![i] = metrics[i]])
    ELSE MaxLoop(metrics, i + 1, max_vals)

\* the (player, position) pairs in iteration order
RECURSIVE Visits(_, _)
Visits(ps, ord) ==
    IF ord = <<>> THEN <<>>
    ELSE LET n == Head(ord)
             own == SelectSeq(PositionOrder,
                              LAMBDA p : p \in DOMAIN ps[n].metrics)
         IN  [k \in 1..Len(own) |-> <<n, own[k]>>] \o Visits(ps, Tail(ord))

\* first pass: the per-position vector of maxima
RECURSIVE MaxPass(_, _, _, _)
MaxPass(ps, visits, k, max_metrics) ==
    IF k > Len(visits) THEN [ok |-> TRUE, val |-> max_metrics]
    ELSE LET position == visits[k][2]
             metrics == ps[visits[k][1]].metrics[position]
             entered == IF position \in DOMAIN max_metrics THEN max_metrics
                        ELSE MapInsert(max_metrics, position, Zeros(Len(metrics)))
             r == MaxLoop(metrics, 1, entered[position])
         IN  IF r.ok
             THEN MaxPass(ps, visits, k + 1, MapInsert(entered, position, r.val))
             ELSE Panic

\* max_vals[i] is read for every i of the metric vector
RescaleOk(metrics, max_vals) == Len(metrics) <= Len(max_vals)

\* every metric divided by the maximum of the first index
RescaleByFirst(metrics, max_vals) ==
    [i \in 1..Len(metrics) |->
        IF F64Gt(max_vals[1], Zero) /\ IsFinite(metrics[i])
        THEN F64Div(metrics[i], max_vals[1])
        ELSE Zero]

Rescale(metrics, max_vals) ==
    [i \in 1..Len(metrics) |->
        IF F64Gt(max_vals[i], Zero) /\ IsFinite(metrics[i])
        THEN F64Div(metrics[i], max_vals[i])
        ELSE Zero]

\* second pass: every metric divided by its maximum
RescalePass(ps, max_metrics) ==
    IF \A n \in DOMAIN ps : \A p \in DOMAIN ps[n].metrics :
           RescaleOk(ps[n].metrics[p], max_metrics[p])
    THEN [ok |-> TRUE,
          val |-> [n \in DOMAIN ps |->
                    [ps[n] EXCEPT !.metrics =
                        [p \in DOMAIN ps[n].metrics |->
                            Rescale(ps[n].metrics[p], max_metrics[p])]]]]
    ELSE Panic

normalize_metrics(ps, ord) ==
    LET m == MaxPass(ps, Visits(ps, ord), 1, EmptyMap)
    IN  IF m.ok THEN RescalePass(ps, m.val) ELSE Panic

(* --------------------------- calculate_score --------------------------- *)

\* the weights in hundredths
Weights(position) ==
    CASE position = "Center" -> <<25, 30, 15, 20, 10>>
      [] position = "Wing" -> <<35, 25, 15, 20, 5>>
      [] position = "Defense" -> <<15, 30, 20, 20, 15>>

ScalingFactor == 5

\* a / b + c / d, exact
RatAdd(x, y) ==
    LET n == x[1] * y[2] + y[1] * x[2]
        d == x[2] * y[2]
        g == GCD(Abs(n), d)
    IN  <<n \div g, d \div g>>

RECURSIVE WeightedSum(_, _, _)
WeightedSum(metrics, weights, i) ==
    IF i > Len(metrics) THEN Zero
    ELSE RatAdd(<<metrics[i][1] * weights[i], metrics[i][2] * 100>>,
                WeightedSum(metrics, weights, i + 1))

\* A score is <<0, Zero>> for the literal 0.0 and <<1, x>> for
\* 100 / (1 + exp(-x)): the logistic is positive and strictly increasing,
\* so scores compare by tag and then by x.
ZeroScore == <<0, Zero>>
Logistic(x) == <<1, x>>

\* the length test left out: zip stops at the shorter of the two
calculate_score_unchecked(position, metrics) ==
    LET weights == Weights(position)
        n == IF Len(metrics) < Len(weights) THEN Len(metrics) ELSE Len(weights)
        zipped == SubSeq(metrics, 1, n)
    IN  IF \E i \in 1..Len(metrics) : ~IsFinite(metrics[i])
        THEN ZeroScore
        ELSE LET ws == WeightedSum(zipped, weights, 1)
                 g == GCD(Abs(ScalingFactor * ws[1]), ws[2])
             IN  Logistic(<<(ScalingFactor * ws[1]) \div g, ws[2] \div g>>)

calculate_score(position, metrics) ==
    LET weights == Weights(position)
    IN  IF Len(metrics) # Len(weights)
           \/ \E i \in 1..Len(metrics) : ~IsFinite(metrics[i])
        THEN ZeroScore
        ELSE LET ws == WeightedSum(metrics, weights, 1)
                 g == GCD(Abs(ScalingFactor * ws[1]), ws[2])
             IN  Logistic(<<(ScalingFactor * ws[1]) \div g, ws[2] \div g>>)

\* a.1 < b.1
ScoreLt(a, b) == a[1] < b[1] \/ (a[1] = 1 /\ b[1] = 1 /\ F64Gt(b[2], a[2]))

(* ------------------------------ ranking -------------------------------- *)

\* position_groups.entry(position).or_insert_with(Vec::new).push((name, score))
RECURSIVE GroupPositions(_, _, _, _)
GroupPositions(ps, n, k, groups) ==
    IF k > Len(ps[n].positions) THEN groups
    ELSE LET position == ps[n].positions[k]
         IN  IF position \in DOMAIN ps[n].metrics
             THEN GroupPositions(ps, n, k + 1,
                     MapExtend(groups, position,
                        <<<<n, calculate_score(position, ps[n].metrics[position])>>>>))
             ELSE GroupPositions(ps, n, k + 1, groups)

RECURSIVE GroupPlayers(_, _, _)
GroupPlayers(ps, ord, groups) ==
    IF ord = <<>> THEN groups
    ELSE GroupPlayers(ps, Tail(ord), GroupPositions(ps, Head(ord), 1, groups))

\* one insertion of the stable descending sort: e goes behind every entry
\* whose score is not smaller
RECURSIVE InsertDesc(_, _)
InsertDesc(sorted, e) ==
    IF sorted = <<>> THEN <<e>>
    ELSE IF ScoreLt(Head(sorted)[2], e[2]) THEN <<e>> \o sorted
    ELSE <<Head(sorted)>> \o InsertDesc(Tail(sorted), e)

\* sort_by(|a, b| b.1.partial_cmp(&a.1).unwrap_or(Equal)), a stable sort
RECURSIVE SortDesc(_)
SortDesc(s) ==
    IF s = <<>> THEN <<>>
    ELSE InsertDesc(SortDesc(SubSeq(s, 1, Len(s) - 1)), s[Len(s)])

Take(s, n) == SubSeq(s, 1, IF Len(s) < n THEN Len(s) ELSE n)

SortedGroups(ps, ord) ==
    LET groups == GroupPlayers(ps, ord, EmptyMap)
    IN  [p \in DOMAIN groups |-> SortDesc(groups[p])]

(* ------------------------------ inputs --------------------------------- *)

RECURSIVE Join(_, _)
Join(fs, sep) ==
    IF Len(fs) = 0 THEN <<>>
    ELSE IF Len(fs) = 1 THEN fs[1]
    ELSE fs[1] \o <<sep>> \o Join(Tail(fs), sep)

\* the columns clean_fields reads as numbers
MetricColumns == {5, 7, 9, 10, 12, 18, 27, 28, 30, 33}

\* a line of n fields: an id, the name, the position, val in every metric
\* column and nothing in the others
MkLine(n, name, pos, val) ==
    Join([k \in 1..n |-> IF k = 1 THEN <<"1">>
                         ELSE IF k = 2 THEN name
                         ELSE IF k = 3 THEN pos
                         ELSE IF k - 1 \in MetricColumns THEN val
                         ELSE <<>>], ",")

NameA == <<Quote, "A", Quote>>
NameB == <<" ", Quote, "B", Quote>>
PosC == <<Quote, "C", Quote>>
PosL == <<"L">>
PosLR == <<Quote, "L", "/", "R", Quote>>
PosCD == <<"C", "/", "D">>
V20 == <<"2", "0">>
VNeg == <<"-", "3", "0">>
VHalf == <<"0", ".", "5">>
VNaN == <<"N", "a", "N">>
VBad == <<"x">>

HeaderLine ==
    MkLine(MinFields, <<Quote, "P", "l", "a", "y", "e", "r", Quote>>,
           <<Quote, "P", "o", "s", Quote>>, <<Quote, "G", "P", Quote>>)

AcceptedLines ==
    {MkLine(MinFields, NameA, PosC, V20),
     MkLine(MinFields, NameA, PosC, VNeg),
     MkLine(MinFields, NameA, PosL, V20),
     MkLine(MinFields, NameA, PosCD, V20),
     MkLine(MinFields, NameB, PosC, V20),
     MkLine(MinFields, NameB, PosC, VHalf),
     MkLine(MinFields, NameB, PosC, VBad),
     MkLine(MinFields, NameB, PosLR, V20),
     MkLine(MinFields, NameB, PosLR, VNaN)}

RejectedLines ==
    {HeaderLine,
     MkLine(MinFields - 1, NameA, PosC, V20),
     MkLine(MinFields, <<Quote, Quote>>, PosC, V20),
     MkLine(MinFields, NameA, <<>>, V20),
     MkLine(MinFields, NameA, <<"C", "/", "X">>, V20)}

LineSet == AcceptedLines \cup RejectedLines

SeqsUpTo(S, n) == UNION {[1..k -> S] : k \in 0..n}

Files == SeqsUpTo(LineSet, MaxLines)

\* the orders in which a HashMap with key set S may be iterated
Perms(S) ==
    {o \in [1..Cardinality(S) -> S] :
        \A i, j \in 1..Cardinality(S) : i # j => o[i] # o[j]}

(* ----------------------- registries built directly --------------------- *)

WingPlayer(n, v) ==
    [name |-> n, positions |-> <<"Wing">>, metrics |-> [p \in {"Wing"} |-> v]]

TestVals == {<<-30, 1>>, Zero, <<1, 2>>, <<20, 1>>, <<40, 1>>, NaN}

TestVectors == UNION {[1..k -> TestVals] : k \in 1..MaxVecLen}

\* the registry of test_normalize_metrics
UnitTestRegistry ==
    [n \in {<<"A">>, <<"B">>} |->
        IF n = <<"A">>
        THEN WingPlayer(n, <<<<10, 1>>, <<20, 1>>, <<30, 1>>>>)
        ELSE WingPlayer(n, <<<<20, 1>>, <<10, 1>>, <<40, 1>>>>)]

TestRegistries ==
    {[n \in {<<"A">>, <<"B">>} |->
        IF n = <<"A">> THEN WingPlayer(n, a) ELSE WingPlayer(n, b)] :
        a \in TestVectors, b \in TestVectors}
    \cup {UnitTestRegistry}

(* ------------------------------ actions -------------------------------- *)

Init ==
    /\ entry \in {"main", "process_file"}
    /\ pc = IF entry = "main" THEN "read" ELSE "header"
    /\ lines \in Files
    /\ idx = 0
    /\ players = EmptyMap
    /\ processed_rows = 0
    /\ skipped_rows = 0
    /\ order = <<>>
    /\ position_groups = EmptyMap
    /\ leaderboard = EmptyMap

\* main: one iteration of `for line in reader.lines()`
MainLine ==
    /\ entry = "main" /\ pc = "read" /\ idx < Len(lines)
    /\ LET r == clean_fields(lines[idx + 1])
       IN  IF r.ok
           THEN /\ players' = InsertPlayer(players, r)
                /\ processed_rows' = processed_rows + 1
                /\ UNCHANGED skipped_rows
           ELSE /\ skipped_rows' = skipped_rows + 1
                /\ UNCHANGED <<players, processed_rows>>
    /\ idx' = idx + 1
    /\ UNCHANGED <<entry, pc, lines, order, position_groups, leaderboard>>

\* the call of normalize_metrics; the HashMap fixes some iteration order
Normalize(from, to) ==
    /\ pc = from
    /\ \E o \in Perms(DOMAIN players) :
          LET r == normalize_metrics(players, o)
          IN  /\ order' = o
              /\ IF r.ok
                 THEN players' = r.val /\ pc' = to
                 ELSE pc' = "panicked" /\ UNCHANGED players
    /\ UNCHANGED <<entry, lines, idx, processed_rows, skipped_rows,
                   position_groups, leaderboard>>

\* main: the counts are printed and the registry is normalized
MainNormalize ==
    /\ entry = "main" /\ idx = Len(lines)
    /\ Normalize("read", "normalized")

\* main: scores are grouped by position, sorted, and the top ones printed
MainRank ==
    /\ entry = "main" /\ pc = "normalized"
    /\ position_groups' = SortedGroups(players, order)
    /\ leaderboard' = [p \in DOMAIN position_groups' |->
                          Take(position_groups'[p], TopN)]
    /\ pc' = "ranked"
    /\ UNCHANGED <<entry, lines, idx, players, processed_rows, skipped_rows,
                   order>>

\* process_file: lines.next() drops the first line
PfHeader ==
    /\ entry = "process_file" /\ pc = "header"
    /\ idx' = IF Len(lines) > 0 THEN 1 ELSE 0
    /\ pc' = "read"
    /\ UNCHANGED <<entry, lines, players, processed_rows, skipped_rows,
                   order, position_groups, leaderboard>>

\* process_file: one iteration of `for line in lines`
PfLine ==
    /\ entry = "process_file" /\ pc = "read" /\ idx < Len(lines)
    /\ LET r == clean_fields(lines[idx + 1])
       IN  IF r.ok
           THEN players' = InsertPlayer(players, r)
           ELSE UNCHANGED players
    /\ idx' = idx + 1
    /\ UNCHANGED <<entry, pc, lines, processed_rows, skipped_rows,
                   order, position_groups, leaderboard>>

\* process_file: Ok(players)
PfReturn ==
    /\ entry = "process_file" /\ pc = "read" /\ idx = Len(lines)
    /\ pc' = "returned"
    /\ UNCHANGED <<entry, lines, idx, players, processed_rows, skipped_rows,
                   order, position_groups, leaderboard>>

Next == MainLine \/ MainNormalize \/ MainRank \/ PfHeader \/ PfLine \/ PfReturn

Spec == Init /\ [][Next]_vars

(* normalize_metrics applied to a registry built directly, once and again *)

InitNorm ==
    /\ entry = "test"
    /\ pc = "built"
    /\ lines = <<>>
    /\ idx = 0
    /\ players \in TestRegistries
    /\ processed_rows = 0
    /\ skipped_rows = 0
    /\ order = <<>>
    /\ position_groups = EmptyMap
    /\ leaderboard = EmptyMap

TestNormalize == entry = "test" /\ Normalize("built", "normalized")

\* a second call on the same, unmodified map: same iteration order
TestRenormalize ==
    /\ entry = "test" /\ pc = "normalized"
    /\ LET r == normalize_metrics(players, order)
       IN  IF r.ok
           THEN players' = r.val /\ pc' = "renormalized"
           ELSE pc' = "panicked" /\ UNCHANGED players
    /\ UNCHANGED <<entry, lines, idx, processed_rows, skipped_rows, order,
                   position_groups, leaderboard>>

NextNorm == TestNormalize \/ TestRenormalize

SpecNorm == InitNorm /\ [][NextNorm]_vars

(* ------------------------------ properties ----------------------------- *)

PositionTokens == {<<"C">>, <<"L">>, <<"R">>, <<"D">>}

\* too few fields, no name, no position, or a token outside C, L, R, D
StructurallyInvalid(line) ==
    LET fields == FieldsOf(line)
    IN  \/ Len(fields) < 34
        \/ fields[2] = <<>>
        \/ fields[3] = <<>>
        \/ \E t \in {Split(fields[3], "/")[k] : k \in 1..Len(Split(fields[3], "/"))} :
              t \notin PositionTokens

\* C1: a structurally invalid row yields no result from clean_fields, leaves
\* the registry as it was, and the loop goes on to the next row.
C1_InvalidRowRejected ==
    [][(pc = "read" /\ idx < Len(lines) /\ idx' = idx + 1
        /\ StructurallyInvalid(lines[idx + 1]))
       => (~clean_fields(lines[idx + 1]).ok /\ players' = players /\ pc' = "read")]_vars

\* a row whose bad token follows a good one was skipped, and the row after
\* it was taken
C1_Witness ==
    /\ entry = "main" /\ pc = "read" /\ idx = 2
    /\ lines[1] = MkLine(MinFields, NameA, <<"C", "/", "X">>, V20)
    /\ skipped_rows = 1 /\ processed_rows = 1
    /\ DOMAIN players = {clean_fields(lines[2]).name}

\* the first data row: main reads from the first line, process_file from
\* the second
FirstRow == IF entry = "main" THEN 1 ELSE 2

\* what clean_fields returns for each line read so far
Cleaned == [k \in 1..idx |-> clean_fields(lines[k])]

AcceptedRows(c) == {k \in FirstRow..idx : c[k].ok}

LastRowOf(c, n) ==
    CHOOSE k \in AcceptedRows(c) :
        /\ c[k].name = n
        /\ \A j \in AcceptedRows(c) : c[j].name = n => j <= k

\* C2: while rows are consumed, the registry holds exactly the names of the
\* accepted rows, each with what clean_fields extracted from the last
\* accepted row of that name.
C2_LastWriteWins ==
    pc \in {"header", "read", "returned"} =>
        LET c == Cleaned
        IN  /\ DOMAIN players = {c[k].name : k \in AcceptedRows(c)}
            /\ \A n \in DOMAIN players : players[n] = Player(c[LastRowOf(c, n)])

\* two accepted rows of one name with different contents have been read
C2_Witness ==
    /\ pc = "read" /\ idx = 2 /\ AcceptedRows(Cleaned) = {1, 2}
    /\ Cleaned[1].name = Cleaned[2].name
    /\ DOMAIN Cleaned[1].metrics # DOMAIN Cleaned[2].metrics
    /\ players[Cleaned[2].name] = Player(Cleaned[2])

CenterRow == MkLine(MinFields, NameA, PosC, V20)

\* C3: the header line is not counted: once main has read a whole file that
\* starts with a header, processed_rows + skipped_rows is the number of
\* lines after the header, and a header with one Center row gives 1
\* processed and 0 skipped.
C3_HeaderNotCounted ==
    (entry = "main" /\ Len(lines) > 0 /\ lines[1] = HeaderLine
     /\ idx = Len(lines)) =>
        /\ processed_rows + skipped_rows = Len(lines) - 1
        /\ lines = <<HeaderLine, CenterRow>> =>
              (processed_rows = 1 /\ skipped_rows = 0)

\* C4: every position of every stored player has a metric vector of
\* exactly 5 values.
C4_FiveMetrics ==
    \A n \in DOMAIN players :
        \A k \in 1..Len(players[n].positions) :
            /\ players[n].positions[k] \in DOMAIN players[n].metrics
            /\ Len(players[n].metrics[players[n].positions[k]]) = 5

\* the finite values at index i of position p
FiniteAt(ps, p, i) ==
    {ps[n].metrics[p][i] : n \in {m \in DOMAIN ps :
        p \in DOMAIN ps[m].metrics /\ i <= Len(ps[m].metrics[p])
        /\ IsFinite(ps[m].metrics[p][i])}}

\* the largest of them, 0 if none exceeds 0
PopulationMax(ps, p, i) ==
    LET pos == {v \in FiniteAt(ps, p, i) : v[1] > 0}
    IN  IF pos = {} THEN Zero
        ELSE CHOOSE v \in pos : \A w \in pos : v[1] * w[2] >= w[1] * v[2]

\* r is the f64 quotient v / m of finite v and m > 0
IsQuotient(r, v, m) ==
    IF Abs(v[1] * m[2]) > F64Max * v[2] * m[1]
    THEN ~IsFinite(r) /\ r # NaN /\ (r[1] > 0 <=> v[1] > 0)
    ELSE IsFinite(r) /\ r[1] * v[2] * m[1] = v[1] * m[2] * r[2]

\* C5: a completed normalize_metrics turns every value v at (P, i) into
\* v / M for the population maximum M at (P, i) when M > 0 and v is finite,
\* and into 0.0 otherwise.
C5_RescaledByMax ==
    [][(pc = "built" /\ pc' = "normalized") =>
        /\ DOMAIN players' = DOMAIN players
        /\ \A n \in DOMAIN players :
              /\ DOMAIN players'[n].metrics = DOMAIN players[n].metrics
              /\ \A p \in DOMAIN players[n].metrics :
                    /\ Len(players'[n].metrics[p]) = Len(players[n].metrics[p])
                    /\ \A i \in 1..Len(players[n].metrics[p]) :
                          LET v == players[n].metrics[p][i]
                              M == PopulationMax(players, p, i)
                              r == players'[n].metrics[p][i]
                          IN  IF M[1] > 0 /\ IsFinite(v)
                              THEN IsQuotient(r, v, M)
                              ELSE r = Zero]_vars

\* the registry of test_normalize_metrics after normalization
C5_Witness ==
    /\ pc = "normalized"
    /\ players[<<"A">>].metrics["Wing"] = <<<<1, 2>>, <<1, 1>>, <<3, 4>>>>
    /\ players[<<"B">>].metrics["Wing"] = <<<<1, 1>>, <<1, 2>>, <<1, 1>>>>

\* C6: after normalize_metrics every metric value lies in [0, 1].
C6_UnitInterval ==
    pc \in {"normalized", "ranked"} =>
        \A n \in DOMAIN players : \A p \in DOMAIN players[n].metrics :
            \A i \in 1..Len(players[n].metrics[p]) :
                LET v == players[n].metrics[p][i]
                IN  IsFinite(v) /\ 0 <= v[1] /\ v[1] <= v[2]

\* C7: normalize_metrics is not idempotent: among the registries it is
\* applied to directly, some registry is changed by a second application.
C7_NotIdempotent ==
    entry = "test" =>
        \E R \in TestRegistries : \E o \in Perms(DOMAIN R) :
            LET once == normalize_metrics(R, o)
            IN  /\ once.ok
                /\ normalize_metrics(once.val, o).ok
                /\ normalize_metrics(once.val, o).val # once.val

\* a normalized registry that a second application would change
C7_Witness ==
    /\ entry = "test" /\ pc = "normalized"
    /\ normalize_metrics(players, order).ok
    /\ normalize_metrics(players, order).val # players

LeaderboardOf(ps, o) ==
    [p \in DOMAIN SortedGroups(ps, o) |-> Take(SortedGroups(ps, o)[p], TopN)]

\* C8: the printed leaderboards do not depend on the order in which the
\* registry is iterated.
C8_Reproducible ==
    pc = "ranked" =>
        \A o \in Perms(DOMAIN players) : LeaderboardOf(players, o) = leaderboard

\* the metric vector cannot be scored: wrong length or a non-finite value
Unscorable(p, m) ==
    Len(m) # Len(Weights(p)) \/ \E i \in 1..Len(m) : ~IsFinite(m[i])

\* C9: ranking always completes, every position a player lists is scored,
\* and a vector of the wrong length or with a non-finite value scores 0.0.
C9_ZeroScoreOnBadInput ==
    [][(entry = "main" /\ pc = "normalized") =>
        /\ pc' = "ranked"
        /\ \A n \in DOMAIN players : \A k \in 1..Len(players[n].positions) :
              LET p == players[n].positions[k]
              IN  /\ p \in DOMAIN position_groups'
                  /\ \E j \in 1..Len(position_groups'[p]) :
                        position_groups'[p][j][1] = n
                  /\ \A j \in 1..Len(position_groups'[p]) :
                        (position_groups'[p][j][1] = n
                         /\ Unscorable(p, players[n].metrics[p]))
                        => position_groups'[p][j][2] = ZeroScore]_vars

\* a ranked player whose Wing vector has 10 values
C9_Witness ==
    /\ pc = "ranked"
    /\ \E n \in DOMAIN players :
          /\ "Wing" \in DOMAIN players[n].metrics
          /\ Len(players[n].metrics["Wing"]) = 10
          /\ \E j \in 1..Len(leaderboard["Wing"]) :
                leaderboard["Wing"][j] = <<n, ZeroScore>>

\* C10: normalize_metrics never aborts the run.
C10_NoPanic == pc # "panicked"

====
